---- MODULE Spec2Model ----
(***************************************************************************)
(* Model of the ATP report pipeline of src/ConvertFormat.py: the class     *)
(* ConvertFormat (process_file, process_directory, save_to_csv,            *)
(* adding_serial_number) and the script at the end of the file that runs   *)
(* one walk followed by one save.                                          *)
(*                                                                         *)
(* Text is modelled as sequences of one-character strings wherever the     *)
(* code looks inside it (serial numbers, dates, numbers written to and     *)
(* read from CSV); fields the code only copies are atomic strings.         *)
(* The model covers runs in which os.path.join(self.directory, filepath)   *)
(* names the file the walk found (an absolute input directory).            *)
(***************************************************************************)
EXTENDS Integers, Sequences, FiniteSets, TLC

VARIABLES dfs, files, pc, nproc, nrun, last, prevFiles

vars == <<dfs, files, pc, nproc, nrun, last, prevFiles>>

(***************************************************************************)
(* Bounds of the model.                                                    *)
(***************************************************************************)
\* files processed over all the runs of a behaviour of Spec
MaxFiles == 2
\* runs of the script over one output directory
MaxRuns == 2
\* files of the one walk of SpecWalk
MaxWalk == 3
\* files of the one walk of SpecNormalize
MaxWide == 1

(***************************************************************************)
(* Characters and numbers as text.                                         *)
(***************************************************************************)
Digits == <<"0", "1", "2", "3", "4", "5", "6", "7", "8", "9">>

DigitSet == {Digits[i] : i \in 1..10}

DigitVal(c) == (CHOOSE i \in 1..10 : Digits[i] = c) - 1

IsDigits(s) == Len(s) > 0 /\ \A i \in 1..Len(s) : s[i] \in DigitSet

RECURSIVE NatVal(_)
NatVal(s) == IF s = <<>> THEN 0
             ELSE 10 * NatVal(SubSeq(s, 1, Len(s) - 1)) + DigitVal(s[Len(s)])

IsIntText(s) ==
    \/ IsDigits(s)
    \/ Len(s) > 1 /\ s[1] \in {"-", "+"} /\ IsDigits(Tail(s))

IntVal(s) == IF s[1] = "-" THEN 0 - NatVal(Tail(s))
             ELSE IF s[1] = "+" THEN NatVal(Tail(s))
             ELSE NatVal(s)

\* text of a float in fixed notation ("2.0", "00001.5")
IsFloatText(s) ==
    \E p \in 2..(Len(s) - 1) :
        /\ s[p] = "."
        /\ IsIntText(SubSeq(s, 1, p - 1))
        /\ \A i \in (p + 1)..Len(s) : s[i] \in DigitSet

\* the whole part of such a float
FloatVal(s) ==
    LET p == CHOOSE q \in 2..(Len(s) - 1) : s[q] = "."
    IN  IntVal(SubSeq(s, 1, p - 1))

RECURSIVE StripZeros(_)
StripZeros(s) ==
    IF s # <<>> /\ s[Len(s)] = "0" THEN StripZeros(SubSeq(s, 1, Len(s) - 1)) ELSE s

\* its fraction digits, <<>> when the fraction is zero
FloatFrac(s) ==
    LET p == CHOOSE q \in 2..(Len(s) - 1) : s[q] = "."
    IN  StripZeros(SubSeq(s, p + 1, Len(s)))

RECURSIVE NatToChars(_)
NatToChars(n) == IF n < 10 THEN <<Digits[n + 1]>>
                 ELSE NatToChars(n \div 10) \o <<Digits[(n % 10) + 1]>>

IntToChars(n) == IF n < 0 THEN <<"-">> \o NatToChars(0 - n) ELSE NatToChars(n)

RECURSIVE Zeros(_)
Zeros(k) == IF k <= 0 THEN <<>> ELSE <<"0">> \o Zeros(k - 1)

\* a padding that puts the zeros before the sign
zfill_before_sign(s, width) ==
    IF Len(s) >= width THEN s ELSE Zeros(width - Len(s)) \o s

\* Python str.zfill(width): pads on the left with "0", after a leading sign;
\* a string already width long or longer is returned unchanged
zfill(s, width) ==
    IF Len(s) >= width THEN s
    ELSE IF Len(s) > 0 /\ s[1] \in {"+", "-"}
         THEN <<s[1]>> \o Zeros(width - Len(s)) \o Tail(s)
         ELSE Zeros(width - Len(s)) \o s

(***************************************************************************)
(* Optional values (a Python value or None).                               *)
(***************************************************************************)
Some(x) == [some |-> TRUE, v |-> x]

None == [some |-> FALSE]

\* str(x) of a text value or of None
str(o) == IF o.some THEN o.v ELSE <<"N", "o", "n", "e">>

(***************************************************************************)
(* Cells of a DataFrame.  A cell of a column whose text the code parses    *)
(* (SERIAL NUMBER, TEST DATE, Test Number) is a string of characters, an   *)
(* integer, a float with zero fraction, or NaN; a cell of the other        *)
(* columns is an atomic string, None or NaN.                               *)
(***************************************************************************)
CStr(s) == [k |-> "str", s |-> s, n |-> 0]

CInt(n) == [k |-> "int", s |-> <<>>, n |-> n]

CFloat(n) == [k |-> "float", s |-> <<>>, n |-> n]

\* a float with a fraction: whole part n, fraction digits frac
CFrac(n, frac) == [k |-> "float", s |-> frac, n |-> n]

CNaN == [k |-> "nan", s |-> <<>>, n |-> 0]

TStr(s) == [k |-> "str", s |-> s]

TNone == [k |-> "none", s |-> ""]

TNaN == [k |-> "nan", s |-> ""]

\* a cell that holds the text of None for a missing value
TOpt_as_text(o) == IF o.some THEN TStr(o.v) ELSE TStr("None")

TOpt(o) == IF o.some THEN TStr(o.v) ELSE TNone

(***************************************************************************)
(* Dates: pd.to_datetime on the two layouts the model feeds it and         *)
(* Timestamp.strftime('%m/%d/%Y').                                         *)
(***************************************************************************)
NoDate == [ok |-> FALSE, year |-> 0, month |-> 0, day |-> 0]

ValidDate(y, m, d) ==
    IF m \in 1..12 /\ d \in 1..31
    THEN [ok |-> TRUE, year |-> y, month |-> m, day |-> d]
    ELSE NoDate

\* None gives None (whose strftime raises), text is parsed as MM/DD/YYYY or
\* as YYYY-MM-DD, any other text raises
to_datetime(o) ==
    IF ~o.some THEN NoDate
    ELSE LET s == o.v IN
         IF Len(s) # 10 THEN NoDate
         ELSE IF /\ s[3] = "/" /\ s[6] = "/"
                 /\ IsDigits(SubSeq(s, 1, 2)) /\ IsDigits(SubSeq(s, 4, 5))
                 /\ IsDigits(SubSeq(s, 7, 10))
              THEN ValidDate(NatVal(SubSeq(s, 7, 10)), NatVal(SubSeq(s, 1, 2)),
                             NatVal(SubSeq(s, 4, 5)))
         ELSE IF /\ s[5] = "-" /\ s[8] = "-"
                 /\ IsDigits(SubSeq(s, 1, 4)) /\ IsDigits(SubSeq(s, 6, 7))
                 /\ IsDigits(SubSeq(s, 9, 10))
              THEN ValidDate(NatVal(SubSeq(s, 1, 4)), NatVal(SubSeq(s, 6, 7)),
                             NatVal(SubSeq(s, 9, 10)))
         ELSE NoDate

strftime(t) ==
    zfill(NatToChars(t.month), 2) \o <<"/">> \o zfill(NatToChars(t.day), 2)
        \o <<"/">> \o zfill(NatToChars(t.year), 4)

(***************************************************************************)
(* A report file: its kind (what pd.read_csv(path, skiprows=6, nrows=34)   *)
(* meets), its header lines and the 'result' column of its body.  A header *)
(* line is held as the result of row[0].split(': '): the category followed *)
(* by the pieces after each ': '.                                          *)
(***************************************************************************)
Line(category, rest) == [category |-> category, rest |-> rest]

File(kind, header, body) == [kind |-> kind, header |-> header, body |-> body]

\* the exception the first read of the body raises, or "ok"
read_csv_body(f) ==
    CASE f.kind = "empty" -> "EmptyDataError"
      [] f.kind = "malformed" -> "ParserError"
      [] OTHER -> "ok"

\* a process_file that catches the empty file only
CaughtOnlyEmptyData == {"EmptyDataError"}

\* the exceptions process_file catches around that read
CaughtByProcessFile == {"EmptyDataError", "ParserError"}

\* category_dict as the list of its values in insertion order: a category
\* that comes again overwrites the value and keeps the first position
RECURSIVE category_dict(_, _)
category_dict(header, acc) ==
    IF header = <<>> THEN acc
    ELSE LET row == Head(header)
             value == IF Len(row.rest) > 0 THEN Some(row.rest[1]) ELSE None
             hit == {i \in 1..Len(acc) : acc[i].category = row.category}
             entry == [category |-> row.category, value |-> value]
         IN  category_dict(Tail(header),
                 IF hit = {} THEN Append(acc, entry)
                 ELSE [i \in 1..Len(acc) |-> IF i \in hit THEN entry ELSE acc[i]])

header_df_final(f) ==
    LET d == category_dict(f.header, <<>>) IN [i \in 1..Len(d) |-> d[i].value]

SerialWidth == 7

Serial_Number(f) ==
    LET h == header_df_final(f) IN IF Len(h) > 3 THEN h[4] ELSE Some(<<>>)

formatted_serial_num(f) == zfill(str(Serial_Number(f)), SerialWidth)

report_Test_Date_str(f) ==
    LET h == header_df_final(f) IN IF Len(h) > 1 THEN h[2] ELSE Some(<<>>)

Test_Operator(f) ==
    LET h == header_df_final(f) IN IF Len(h) > 4 THEN h[5] ELSE Some("")

Test_Result(f) ==
    LET h == header_df_final(f) IN IF Len(h) > 0 THEN h[Len(h)] ELSE Some("")

Test_Date(f) == to_datetime(report_Test_Date_str(f))

\* data['Comments']: one value per body row, from the row's own result
data_Comments(f) ==
    [i \in 1..Len(f.body) |->
        IF f.body[i] = "PASSED" THEN "NEEDS TO GO TO FINAL INSPECTION" ELSE "FAILED"]

\* a Comments taken from the body rows instead
Comments_from_body(f) ==
    IF \A i \in 1..Len(f.body) : data_Comments(f)[i] = "NEEDS TO GO TO FINAL INSPECTION"
    THEN "NEEDS TO GO TO FINAL INSPECTION" ELSE "FAILED"

\* the file-level Comments, from the last header field
Comments(f) ==
    LET r == Test_Result(f) IN
    IF r.some /\ r.v = "PASSED" THEN "NEEDS TO GO TO FINAL INSPECTION" ELSE "FAILED"

new_df(f) ==
    [PART_NUMBER |-> TStr("2AC65A-001"),
     REVISION |-> TStr("F"),
     SERIAL_NUMBER |-> CStr(formatted_serial_num(f)),
     BUILD_DATE |-> TStr(""),
     ASSEMBLER |-> TStr("NA"),
     TEST_DATE |-> CStr(strftime(Test_Date(f))),
     REBUILD_DATE |-> TStr("NA"),
     TEST_OPERATOR |-> TOpt(Test_Operator(f)),
     TEST_RESULT |-> TOpt(Test_Result(f)),
     COMMENTS |-> TStr(Comments(f)),
     Test_Number |-> CStr(<<>>)]

(***************************************************************************)
(* self.dfs: the year buckets in insertion order, each the list of the     *)
(* one-row frames appended under that year.                                *)
(***************************************************************************)
YearsOf(d) == {d[i].year : i \in 1..Len(d)}

BucketIndex(d, year) == CHOOSE i \in 1..Len(d) : d[i].year = year

Bucket(d, year) == d[BucketIndex(d, year)].frames

\* serial_number_count over the frames of one bucket
serial_number_count(frames, serial_num) ==
    Cardinality({i \in 1..Len(frames) : frames[i].SERIAL_NUMBER = serial_num})

\* a numbering by order of arrival: 1, 2, 3 for the records of one serial
assign_running_numbers(frames) ==
    [i \in 1..Len(frames) |->
        [frames[i] EXCEPT !.Test_Number =
            CInt(serial_number_count(SubSeq(frames, 1, i), frames[i].SERIAL_NUMBER))]]

\* df_entry['Test Number'] = df_entry['SERIAL NUMBER'].map(serial_number_count)
assign_test_numbers(frames) ==
    [i \in 1..Len(frames) |->
        [frames[i] EXCEPT !.Test_Number =
            CInt(serial_number_count(frames, frames[i].SERIAL_NUMBER))]]

\* an accumulator that ignores the year once a bucket exists
accumulate_in_first_bucket(d, year, frame) ==
    LET d1 == IF d # <<>> THEN d ELSE <<[year |-> year, frames |-> <<>>]>>
    IN  [d1 EXCEPT ![1].frames = assign_test_numbers(Append(d1[1].frames, frame))]

\* lines 105-121: create the bucket, append, recount the whole bucket
accumulate(d, year, frame) ==
    LET d1 == IF year \in YearsOf(d) THEN d
              ELSE Append(d, [year |-> year, frames |-> <<>>])
        i == BucketIndex(d1, year)
    IN  [d1 EXCEPT ![i].frames = assign_test_numbers(Append(d1[i].frames, frame))]

(***************************************************************************)
(* CSV files.  A file on disk is the list of its data rows, every field    *)
(* as the text DataFrame.to_csv wrote; pd.read_csv turns the text back     *)
(* into cells, inferring one dtype per column.                             *)
(***************************************************************************)
CharCols == {"SERIAL_NUMBER", "TEST_DATE", "Test_Number"}

Cols == {"PART_NUMBER", "REVISION", "SERIAL_NUMBER", "BUILD_DATE", "ASSEMBLER",
         "TEST_DATE", "REBUILD_DATE", "TEST_OPERATOR", "TEST_RESULT", "COMMENTS",
         "Test_Number"}

\* text that read_csv takes for a missing value
NaStrings == {"", "NA", "N/A", "NaN", "nan", "NULL", "null", "n/a", "#N/A", "<NA>"}

NaChars == {<<>>, <<"N", "A">>, <<"N", "a", "N">>, <<"n", "a", "n">>}

CharText(c) ==
    CASE c.k = "str" -> c.s
      [] c.k = "int" -> IntToChars(c.n)
      [] c.k = "float" -> IntToChars(c.n) \o <<".">> \o (IF c.s = <<>> THEN <<"0">> ELSE c.s)
      [] OTHER -> <<>>

StrText(c) == IF c.k = "str" THEN c.s ELSE ""

to_csv_row(row) ==
    [col \in Cols |-> IF col \in CharCols THEN CharText(row[col]) ELSE StrText(row[col])]

to_csv(df) == [i \in 1..Len(df) |-> to_csv_row(df[i])]

\* dtype read_csv infers for a column of parsed text
ColumnKind(texts) ==
    LET present == {i \in 1..Len(texts) : texts[i] \notin NaChars} IN
    IF \A i \in present : IsIntText(texts[i])
    THEN (IF present = 1..Len(texts) THEN "int" ELSE "float")
    ELSE IF \A i \in present : IsIntText(texts[i]) \/ IsFloatText(texts[i])
         THEN "float"
         ELSE "object"

ReadChars(kind, text) ==
    IF text \in NaChars THEN CNaN
    ELSE CASE kind = "int" -> CInt(IntVal(text))
           [] kind = "float" ->
                IF IsIntText(text) THEN CFloat(IntVal(text))
                ELSE CFrac(FloatVal(text), FloatFrac(text))
           [] OTHER -> CStr(text)

ReadStr(text) == IF text \in NaStrings THEN TNaN ELSE TStr(text)

read_csv(rows) ==
    LET kind == [col \in CharCols |->
                    ColumnKind([i \in 1..Len(rows) |-> rows[i][col]])]
    IN  [i \in 1..Len(rows) |->
            [col \in Cols |->
                IF col \in CharCols THEN ReadChars(kind[col], rows[i][col])
                ELSE ReadStr(rows[i][col])]]

\* dtype of a column after pd.concat: integers next to floats or missing
\* values become floats, anything next to strings stays as it is (object)
UnifyCell(column, c) ==
    IF /\ c.k = "int"
       /\ \A i \in 1..Len(column) : column[i].k # "str"
       /\ \E i \in 1..Len(column) : column[i].k \in {"float", "nan"}
    THEN CFloat(c.n)
    ELSE c

concat(a, b) ==
    LET df == a \o b IN
    [i \in 1..Len(df) |->
        [col \in Cols |->
            IF col \in CharCols
            THEN UnifyCell([j \in 1..Len(df) |-> df[j][col]], df[i][col])
            ELSE df[i][col]]]

\* duplicated() takes None and NaN for the same missing value
RowKey(row) ==
    [col \in Cols |-> IF col \notin CharCols /\ row[col].k = "none" THEN TNaN
                      ELSE row[col]]

RECURSIVE drop_duplicates(_)
drop_duplicates(df) ==
    IF df = <<>> THEN <<>>
    ELSE LET init == drop_duplicates(SubSeq(df, 1, Len(df) - 1))
             x == df[Len(df)]
         IN  IF \E i \in 1..Len(init) : RowKey(init[i]) = RowKey(x) THEN init
             ELSE Append(init, x)

(***************************************************************************)
(* adding_serial_number(filename)                                          *)
(***************************************************************************)
\* pd.to_numeric(..., errors='coerce') on one SERIAL NUMBER cell
to_numeric(c) ==
    IF c.k # "str" THEN c
    ELSE IF IsIntText(c.s) THEN CInt(IntVal(c.s))
    ELSE IF IsFloatText(c.s) THEN CFrac(FloatVal(c.s), FloatFrac(c.s))
    ELSE CNaN

\* line 172: astype('Int64') raises TypeError on a value that is not whole
astype_raises(df) ==
    \E i \in 1..Len(df) :
        LET c == to_numeric(df[i].SERIAL_NUMBER) IN c.k = "float" /\ c.s # <<>>

\* whether adding_serial_number raises on the file just written; the
\* TypeError is not a ValueError, so it leaves save_to_csv as well
adding_serial_number_raises(rows) == astype_raises(read_csv(rows))

\* lines 166-172: coerce, drop the rows left without a number, cast to Int64
coerce_serials(df) ==
    LET num == [i \in 1..Len(df) |->
                   [df[i] EXCEPT !.SERIAL_NUMBER = to_numeric(df[i].SERIAL_NUMBER)]]
        kept == SelectSeq(num, LAMBDA r : r.SERIAL_NUMBER.k # "nan")
    IN  [i \in 1..Len(kept) |->
            [kept[i] EXCEPT !.SERIAL_NUMBER = CInt(kept[i].SERIAL_NUMBER.n)]]

\* pd.DataFrame({'SERIAL NUMBER': [serial]}) once concatenated: the other
\* columns are missing
missing_df(serial) ==
    [col \in Cols |-> IF col = "SERIAL_NUMBER" THEN serial
                      ELSE IF col \in CharCols THEN CNaN ELSE TNaN]

\* a reconciliation that never finds a serial number missing
missing_nothing(frame, existing_serial_nums) == {}

\* new_serial_nums - existing_serial_nums for one frame: Python compares the
\* frame's value (text) with the values of the coerced column (integers)
missing_serial_nums(frame, existing_serial_nums) ==
    {frame.SERIAL_NUMBER} \ existing_serial_nums

\* lines 178-187: every frame of every year of self.dfs, in order;
\* existing_serial_nums is computed once, before the loop
RECURSIVE add_missing(_, _, _)
add_missing(df, frames, existing_serial_nums) ==
    IF frames = <<>> THEN df
    ELSE LET missing == missing_serial_nums(Head(frames), existing_serial_nums)
         IN  add_missing(
                 IF missing # {}
                 THEN df \o [i \in 1..1 |-> missing_df(CHOOSE m \in missing : TRUE)]
                 ELSE df,
                 Tail(frames), existing_serial_nums)

RECURSIVE all_frames(_)
all_frames(d) == IF d = <<>> THEN <<>> ELSE Head(d).frames \o all_frames(Tail(d))

\* order of the characters the model uses (their code points)
CharOrder == <<"+", "-", ".", "/", "0", "1", "2", "3", "4", "5", "6", "7", "8", "9",
               "N", "e", "n", "o">>

CharRank(c) == CHOOSE i \in 1..Len(CharOrder) : CharOrder[i] = c

RECURSIVE TextLess(_, _)
TextLess(a, b) ==
    IF b = <<>> THEN FALSE
    ELSE IF a = <<>> THEN TRUE
    ELSE IF a[1] = b[1] THEN TextLess(Tail(a), Tail(b))
    ELSE CharRank(a[1]) < CharRank(b[1])

\* '<' of two SERIAL NUMBER cells where Python defines it
CellLess(a, b) == IF a.k = "int" THEN a.n < b.n ELSE TextLess(a.s, b.s)

\* sort_values raises TypeError on a column that mixes text and integers
Sortable(df) ==
    \/ \A i \in 1..Len(df) : df[i].SERIAL_NUMBER.k = "int"
    \/ \A i \in 1..Len(df) : df[i].SERIAL_NUMBER.k = "str"

RECURSIVE InsertSorted(_, _)
InsertSorted(sorted, x) ==
    IF sorted = <<>> THEN <<x>>
    ELSE IF CellLess(x.SERIAL_NUMBER, sorted[Len(sorted)].SERIAL_NUMBER)
         THEN Append(InsertSorted(SubSeq(sorted, 1, Len(sorted) - 1), x),
                     sorted[Len(sorted)])
         ELSE Append(sorted, x)

\* ascending by SERIAL NUMBER; equal keys keep their order (the frames here
\* are short, and numpy sorts short arrays by insertion)
RECURSIVE SortRows(_)
SortRows(df) ==
    IF df = <<>> THEN <<>>
    ELSE InsertSorted(SortRows(SubSeq(df, 1, Len(df) - 1)), df[Len(df)])

\* lines 191-195: sort, or print and go on when sorting raises
sort_values(df) == IF Sortable(df) THEN SortRows(df) ELSE df

\* the rows of the file after adding_serial_number, given the rows before
adding_serial_number(rows, d) ==
    LET df == coerce_serials(read_csv(rows))
        existing_serial_nums == {df[i].SERIAL_NUMBER : i \in 1..Len(df)}
        added == add_missing(df, all_frames(d), existing_serial_nums)
    IN  to_csv(sort_values(concat(added, <<>>)))

(***************************************************************************)
(* save_to_csv()                                                           *)
(***************************************************************************)
NoFile == [exists |-> FALSE, rows |-> <<>>]

\* a merge that counts the serial numbers again over the whole merged file
merged_rows_recounted(file, frames) ==
    LET result_df == concat(frames, <<>>)
        m == IF file.exists
             THEN drop_duplicates(concat(read_csv(file.rows), result_df))
             ELSE result_df
        count(i) == Cardinality({j \in 1..Len(m) :
                        to_numeric(m[j].SERIAL_NUMBER) = to_numeric(m[i].SERIAL_NUMBER)})
    IN  to_csv([i \in 1..Len(m) |->
                   [m[i] EXCEPT !.Test_Number =
                       IF m[i].Test_Number.k = "nan" THEN CNaN ELSE CInt(count(i))]])

\* lines 142-154 for one year: the rows written before reconciliation
merged_rows(file, frames) ==
    LET result_df == concat(frames, <<>>) IN
    IF file.exists
    THEN to_csv(drop_duplicates(concat(read_csv(file.rows), result_df)))
    ELSE to_csv(result_df)

\* the loop over self.dfs.items(), from bucket i on; it ends at the year
\* whose reconciliation raises, the file of that year left as written
RECURSIVE save_years(_, _, _)
save_years(fs, d, i) ==
    IF i > Len(d) THEN fs
    ELSE LET year == d[i].year
             written == merged_rows(fs[year], d[i].frames)
         IN  IF adding_serial_number_raises(written)
             THEN [fs EXCEPT ![year] = [exists |-> TRUE, rows |-> written]]
             ELSE save_years(
                      [fs EXCEPT ![year] =
                          [exists |-> TRUE, rows |-> adding_serial_number(written, d)]],
                      d, i + 1)

\* whether that loop is left by an exception
RECURSIVE save_raises(_, _, _)
save_raises(fs, d, i) ==
    IF i > Len(d) THEN FALSE
    ELSE LET year == d[i].year
             written == merged_rows(fs[year], d[i].frames)
         IN  \/ adding_serial_number_raises(written)
             \/ save_raises(
                     [fs EXCEPT ![year] =
                         [exists |-> TRUE, rows |-> adding_serial_number(written, d)]],
                     d, i + 1)

\* self.dfs as if to_numeric were applied to the accumulated frames in place
dfs_coerced_by_save(d) ==
    [b \in 1..Len(d) |->
        [d[b] EXCEPT !.frames =
            [i \in 1..Len(d[b].frames) |->
                [d[b].frames[i] EXCEPT
                    !.SERIAL_NUMBER = to_numeric(d[b].frames[i].SERIAL_NUMBER)]]]]

\* self.dfs after save_to_csv: pd.concat, read_csv and set() build new
\* objects, no statement assigns to self.dfs or to a frame in it
dfs_after_save(d) == d

(***************************************************************************)
(* The input files the walk may meet.                                      *)
(***************************************************************************)
Years == {2023, 2024}

SerialRests == {<<>>, << <<"4", "2">> >>, << <<"7">> >>}

DateRests == {<< <<"0", "1", "/", "0", "5", "/", "2", "0", "2", "3">> >>,
              << <<"2", "0", "2", "4", "-", "0", "3", "-", "0", "1">> >>}

BadDateRest == << <<"n", "o">> >>

\* a serial number that is a number but not a whole one
FractionSerialRest == << <<"1", ".", "5">> >>

ResultRests == {<<"PASSED">>, <<"FAILED">>}

Report(serial, date, result, body) ==
    File("report",
         <<Line("Test Name", <<"Dual USB ATP">>),
           Line("Test Date", date),
           Line("Part Number", <<"2AC65A-001">>),
           Line("Serial Number", serial),
           Line("Test Operator", <<"op1">>),
           Line("Test Result", result)>>,
         body)

Files ==
    {File("empty", <<>>, <<>>), File("malformed", <<>>, <<>>)}
    \cup {Report(s, d, r, <<"PASSED", "FAILED">>) :
             s \in SerialRests, d \in DateRests, r \in ResultRests}
    \cup {Report(<< <<"4", "2">> >>, BadDateRest, <<"PASSED">>, <<"PASSED", "FAILED">>)}
    \cup {Report(FractionSerialRest, << <<"0", "1", "/", "0", "5", "/", "2", "0", "2", "3">> >>,
                  <<"PASSED">>, <<"PASSED", "FAILED">>)}

\* headers beyond those: a value that is empty, longer than the width,
\* signed; a date line or a result line without ': '; other result words
WideSerialRests ==
    {<<>>, << <<"4", "2">> >>, << <<>> >>, << <<"-", "5">> >>,
     << <<"1", "2", "3", "4", "5", "6", "7", "8">> >>}

WideDateRests == DateRests \cup {BadDateRest, <<>>}

WideResultRests == ResultRests \cup {<<>>, <<"Passed">>}

Bodies == {<<"PASSED", "PASSED">>, <<"PASSED", "FAILED">>}

\* a well-formed report whose i-th header line has no ': '
HeaderWithout(i) ==
    LET base == Report(<< <<"4", "2">> >>,
                       << <<"0", "1", "/", "0", "5", "/", "2", "0", "2", "3">> >>,
                       <<"PASSED">>, <<"PASSED", "FAILED">>)
    IN  File("report",
             [k \in 1..Len(base.header) |->
                 IF k = i THEN Line(base.header[k].category, <<>>) ELSE base.header[k]],
             base.body)

WideFiles ==
    {Report(s, d, r, b) :
        s \in WideSerialRests, d \in WideDateRests, r \in WideResultRests, b \in Bodies}
    \cup {HeaderWithout(i) : i \in 1..6}

NoInput == File("none", <<>>, <<>>)

(***************************************************************************)
(* The state machine: runs of the script, each a walk (process_directory   *)
(* calling process_file file by file) followed by save_to_csv.             *)
(***************************************************************************)
Init ==
    /\ dfs = <<>>
    /\ files = [y \in Years |-> NoFile]
    /\ prevFiles = [y \in Years |-> NoFile]
    /\ pc = "walk"
    /\ nproc = 0
    /\ nrun = 1
    /\ last = [f |-> NoInput, out |-> "none", year |-> 0]

process_file(f) ==
    /\ pc = "walk"
    /\ nproc' = nproc + 1
    /\ UNCHANGED <<files, prevFiles, nrun>>
    /\ LET e == read_csv_body(f) IN
       IF e \in CaughtByProcessFile
       THEN \* except ...: print, return
            /\ dfs' = dfs
            /\ pc' = "walk"
            /\ last' = [f |-> f, out |-> "returned", year |-> 0]
       ELSE IF e # "ok" \/ ~Test_Date(f).ok
       THEN \* the exception leaves process_file and process_directory
            /\ dfs' = dfs
            /\ pc' = "aborted"
            /\ last' = [f |-> f, out |-> "raised", year |-> 0]
       ELSE /\ dfs' = accumulate(dfs, Test_Date(f).year, new_df(f))
            /\ pc' = "walk"
            /\ last' = [f |-> f, out |-> "record", year |-> Test_Date(f).year]

\* the walk, one file at a time: any file of inputs may come next
process_directory(bound, inputs) ==
    /\ nproc < bound
    /\ \E f \in inputs : process_file(f)

\* the script calls save_to_csv once, after the walk; a second call on the
\* same object saves the same accumulated batch again
save_to_csv ==
    /\ pc \in {"walk", "saved"}
    /\ files' = save_years(files, dfs, 1)
    /\ prevFiles' = files
    /\ dfs' = dfs_after_save(dfs)
    /\ pc' = IF save_raises(files, dfs, 1) THEN "save raised"
             ELSE IF pc = "walk" THEN "saved" ELSE "saved again"
    /\ UNCHANGED <<nproc, nrun, last>>

\* the script is started again: a new ConvertFormat with an empty self.dfs,
\* the output directory as the earlier runs left it
new_run ==
    /\ pc \in {"saved", "saved again", "aborted", "save raised"}
    /\ nrun < MaxRuns
    /\ dfs' = <<>>
    /\ pc' = "walk"
    /\ nrun' = nrun + 1
    /\ prevFiles' = files
    /\ last' = [f |-> NoInput, out |-> "none", year |-> 0]
    /\ UNCHANGED <<files, nproc>>

Next == process_directory(MaxFiles, Files) \/ save_to_csv \/ new_run

Spec == Init /\ [][Next]_vars

\* one walk alone, over more files
NextWalk == process_directory(MaxWalk, Files)

SpecWalk == Init /\ [][NextWalk]_vars

\* process_file alone, over a wider range of headers and bodies
NextNormalize == process_directory(MaxWide, WideFiles)

SpecNormalize == Init /\ [][NextNormalize]_vars

(***************************************************************************)
(* Vocabulary of the properties.                                           *)
(***************************************************************************)
Saved == pc \in {"saved", "saved again"}

\* the frame the latest process_file call appended
LastFrame ==
    LET frames == Bucket(dfs, last.year) IN frames[Len(frames)]

\* a serial number as an identity: its number when the text reads as an
\* integer, its text otherwise
SerialKey(text) == IF IsIntText(text) THEN CInt(IntVal(text)) ELSE CStr(text)

SerialKeys(rows) == {SerialKey(rows[i].SERIAL_NUMBER) : i \in 1..Len(rows)}

FrameKeys(frames) == {SerialKey(frames[i].SERIAL_NUMBER.s) : i \in 1..Len(frames)}

\* the number a Test Number field shows ("2" and "2.0" both show 2)
ShownNumber(text) ==
    IF IsIntText(text) THEN IntVal(text)
    ELSE IF IsFloatText(text) THEN FloatVal(text) ELSE 0 - 1

\* a row of a file holds the record of a frame
Holds(row, frame) ==
    LET t == to_csv_row(frame) IN
    /\ SerialKey(row.SERIAL_NUMBER) = SerialKey(t.SERIAL_NUMBER)
    /\ row.TEST_DATE = t.TEST_DATE
    /\ row.TEST_OPERATOR = t.TEST_OPERATOR
    /\ row.TEST_RESULT = t.TEST_RESULT
    /\ row.COMMENTS = t.COMMENTS
    /\ ShownNumber(row.Test_Number) = ShownNumber(t.Test_Number)

Copies(rows, frame) == Cardinality({i \in 1..Len(rows) : Holds(rows[i], frame)})

(***************************************************************************)
(* C1: in every year bucket, the Test Number of every record is the number *)
(* of records of that bucket with the same SERIAL NUMBER text, so the      *)
(* records of one serial and year all carry the same number.               *)
(***************************************************************************)
C1_TestNumberIsCount ==
    \A b \in 1..Len(dfs) :
        LET frames == dfs[b].frames IN
        \A i \in 1..Len(frames) :
            /\ frames[i].Test_Number.k = "int"
            /\ frames[i].Test_Number.n =
                 Cardinality({j \in 1..Len(frames) :
                     frames[j].SERIAL_NUMBER.s = frames[i].SERIAL_NUMBER.s})

\* three records of one serial in one bucket next to nothing else: all show 3
C1_Witness ==
    \E b \in 1..Len(dfs) :
        LET frames == dfs[b].frames IN
        /\ Len(frames) = 3
        /\ \A i \in 1..3 : frames[i].SERIAL_NUMBER = frames[1].SERIAL_NUMBER
        /\ \A i \in 1..3 : frames[i].Test_Number = CInt(3)

(***************************************************************************)
(* C2: for every serial number and year, the record appended first for     *)
(* that serial has Test Number 1, also after later records of the serial.  *)
(***************************************************************************)
C2_FirstOccurrenceIsOne ==
    \A b \in 1..Len(dfs) :
        LET frames == dfs[b].frames IN
        \A i \in 1..Len(frames) :
            (\A j \in 1..(i - 1) : frames[j].SERIAL_NUMBER # frames[i].SERIAL_NUMBER)
                => frames[i].Test_Number = CInt(1)

(***************************************************************************)
(* C3: a second save_to_csv of the same batch adds no rows: every record   *)
(* of the batch is held by as many rows of its year's file after the       *)
(* second save as after the first, and the file has as many rows.          *)
(***************************************************************************)
C3_SecondSaveIdempotent ==
    pc = "saved again" =>
        \A b \in 1..Len(dfs) :
            LET year == dfs[b].year
                frames == dfs[b].frames
            IN  /\ Len(files[year].rows) = Len(prevFiles[year].rows)
                /\ \A i \in 1..Len(frames) :
                       Copies(files[year].rows, frames[i])
                           = Copies(prevFiles[year].rows, frames[i])

(***************************************************************************)
(* C4: after a save, the file of every year of the accumulator has every   *)
(* serial number of the file as written before reconciliation and every    *)
(* serial number of that year's bucket.                                    *)
(***************************************************************************)
C4_NoSerialLost ==
    Saved =>
        \A b \in 1..Len(dfs) :
            LET year == dfs[b].year
                before == merged_rows(prevFiles[year], dfs[b].frames)
            IN  (SerialKeys(before) \cup FrameKeys(dfs[b].frames))
                    \subseteq SerialKeys(files[year].rows)

\* C4 as amended: the same for the serial numbers of the written file that
\* read as integers and for all serial numbers of the bucket
C4_NoNumericSerialLost ==
    Saved =>
        \A b \in 1..Len(dfs) :
            LET year == dfs[b].year
                before == merged_rows(prevFiles[year], dfs[b].frames)
            IN  ({k \in SerialKeys(before) : k.k = "int"} \cup FrameKeys(dfs[b].frames))
                    \subseteq SerialKeys(files[year].rows)

\* a later run saved a bucket with a serial that is no number next to a file
\* that held a number the bucket does not have
C4_Witness ==
    /\ pc = "saved"
    /\ nrun = 2
    /\ \E b \in 1..Len(dfs) :
          /\ prevFiles[dfs[b].year].exists
          /\ \E k \in FrameKeys(dfs[b].frames) : k.k = "str"
          /\ \E k \in SerialKeys(prevFiles[dfs[b].year].rows) :
                k.k = "int" /\ k \notin FrameKeys(dfs[b].frames)

(***************************************************************************)
(* C5: a first save into a directory without the year's file writes one    *)
(* row per record of the bucket and no other row, in order, each with the  *)
(* record's zero-padded serial, its COMMENTS and its Test Number (two      *)
(* reports of serial 42 in 2023: two rows, 0000042, Test Number 2).        *)
(***************************************************************************)
C5_FirstSaveOneRowPerReport ==
    pc = "saved" =>
        \A b \in 1..Len(dfs) :
            LET year == dfs[b].year
                frames == dfs[b].frames
                rows == files[year].rows
            IN  ~prevFiles[year].exists =>
                    /\ Len(rows) = Len(frames)
                    /\ \A i \in 1..Len(frames) :
                          /\ Holds(rows[i], frames[i])
                          /\ rows[i].SERIAL_NUMBER = frames[i].SERIAL_NUMBER.s

(***************************************************************************)
(* C6: a process_file call on an empty file or on a file with a malformed  *)
(* body returns: it leaves the buckets and the files as they were and the  *)
(* walk goes on.                                                           *)
(***************************************************************************)
C6_SkippedFileChangesNothing ==
    [][(nproc' = nproc + 1 /\ last'.f.kind \in {"empty", "malformed"})
          => (dfs' = dfs /\ files' = files /\ pc' = "walk" /\ last'.out = "returned")]_vars

\* a malformed file was skipped in a walk that holds records already
C6_Witness ==
    /\ last.f.kind = "malformed"
    /\ last.out = "returned"
    /\ pc = "walk"
    /\ Len(dfs) > 0

(***************************************************************************)
(* C7: a report whose test date cannot be parsed does not abort the batch: *)
(* after it the walk goes on and the run can still save.                   *)
(***************************************************************************)
C7_BadDateDoesNotAbort ==
    (last.f.kind = "report" /\ ~Test_Date(last.f).ok) => pc # "aborted"

(***************************************************************************)
(* C8: the SERIAL NUMBER of every record is 7 characters long, all digits, *)
(* and is the header's serial value with zeros put before it.              *)
(***************************************************************************)
C8_SerialSevenDigits ==
    last.out = "record" =>
        LET s == LastFrame.SERIAL_NUMBER.s
            v == str(Serial_Number(last.f))
        IN  /\ Len(s) = 7
            /\ IsDigits(s)
            /\ s = Zeros(7 - Len(v)) \o v

\* C8 as amended: when the serial line has a value, the SERIAL NUMBER is
\* that value, never cut, with zeros up to width 7 put before it, after a
\* leading sign; so it is 7 long when the value is at most 7 long and all
\* digits when the value is
C8_SerialZeroFilled ==
    (last.out = "record" /\ Len(last.f.header[4].rest) > 0) =>
        LET s == LastFrame.SERIAL_NUMBER.s
            v == last.f.header[4].rest[1]
            k == Len(s) - Len(v)
            signed == Len(v) > 0 /\ v[1] \in {"+", "-"} /\ k > 0
            sign == IF signed THEN 1 ELSE 0
        IN  /\ LastFrame.SERIAL_NUMBER.k = "str"
            /\ Len(s) = IF Len(v) > 7 THEN Len(v) ELSE 7
            /\ \A i \in 1..sign : s[i] = v[i]
            /\ \A i \in (sign + 1)..(sign + k) : s[i] = "0"
            /\ \A i \in (sign + 1)..Len(v) : s[i + k] = v[i]
            /\ (Len(v) <= 7 => Len(s) = 7)
            /\ (IsDigits(s) <=> \A i \in 1..Len(v) : v[i] \in DigitSet)

\* records of a value longer than the width and of a signed value
C8_Witness ==
    /\ last.out = "record"
    /\ Len(last.f.header[4].rest) > 0
    /\ \/ Len(last.f.header[4].rest[1]) > 7
       \/ last.f.header[4].rest[1] = <<"-", "5">>

(***************************************************************************)
(* C9: COMMENTS of every record is 'NEEDS TO GO TO FINAL INSPECTION' when  *)
(* the last header field is the word PASSED and 'FAILED' for every other   *)
(* value, whatever the result column of the body holds.                    *)
(***************************************************************************)
C9_CommentsFromOverallResult ==
    last.out = "record" =>
        LET rest == last.f.header[Len(last.f.header)].rest
            passed == Len(rest) > 0 /\ rest[1] = "PASSED"
        IN  LastFrame.COMMENTS =
                TStr(IF passed THEN "NEEDS TO GO TO FINAL INSPECTION" ELSE "FAILED")

\* a record whose body rows all passed while the overall result is not PASSED
C9_Witness ==
    /\ last.out = "record"
    /\ \A i \in 1..Len(last.f.body) : last.f.body[i] = "PASSED"
    /\ last.f.header[6].rest # <<"PASSED">>
    /\ LastFrame.COMMENTS = TStr("FAILED")

(***************************************************************************)
(* C10: after save_to_csv no per-year file has two rows that are equal in  *)
(* every column.                                                           *)
(***************************************************************************)
C10_NoDuplicateRows ==
    Saved =>
        \A y \in Years :
            \A i, j \in 1..Len(files[y].rows) :
                i # j => files[y].rows[i] # files[y].rows[j]

(***************************************************************************)
(* C11: after a save, the file of a year whose rows all carry numeric      *)
(* serial numbers is in ascending order of SERIAL NUMBER (and the save     *)
(* has completed with the file written).                                   *)
(***************************************************************************)
C11_FileSortedBySerial ==
    Saved =>
        \A b \in 1..Len(dfs) :
            LET rows == files[dfs[b].year].rows IN
            /\ files[dfs[b].year].exists
            /\ (\A i \in 1..Len(rows) : IsIntText(rows[i].SERIAL_NUMBER))
                  => \A i \in 1..(Len(rows) - 1) :
                        IntVal(rows[i].SERIAL_NUMBER) <= IntVal(rows[i + 1].SERIAL_NUMBER)

(***************************************************************************)
(* C12: the file written by the merge step holds the records' SERIAL       *)
(* NUMBER as zero-padded text, and after reconciliation every SERIAL       *)
(* NUMBER of the file is an integer, no zero-padded text being left.       *)
(***************************************************************************)
C12_SerialIntegerAfterReconciliation ==
    Saved =>
        \A b \in 1..Len(dfs) :
            LET frames == dfs[b].frames
                written == merged_rows(prevFiles[dfs[b].year], frames)
                rows == files[dfs[b].year].rows
            IN  /\ \A i \in 1..Len(frames) :
                      \E j \in 1..Len(written) :
                          written[j].SERIAL_NUMBER = frames[i].SERIAL_NUMBER.s
                /\ \A i \in 1..Len(rows) :
                      /\ IsIntText(rows[i].SERIAL_NUMBER)
                      /\ rows[i].SERIAL_NUMBER = IntToChars(IntVal(rows[i].SERIAL_NUMBER))

(***************************************************************************)
(* C13: reconciliation adds one serial-only row for each serial number of  *)
(* the accumulator that the just-written file lacks, and no other row: a   *)
(* serial whose record is in the file gets none.                           *)
(***************************************************************************)
C13_BlankRowsForMissingOnly ==
    Saved =>
        \A b \in 1..Len(dfs) :
            LET year == dfs[b].year
                written == merged_rows(prevFiles[year], dfs[b].frames)
                df == coerce_serials(read_csv(written))
                missing == FrameKeys(all_frames(dfs)) \ SerialKeys(to_csv(df))
            IN  Len(files[year].rows) = Len(df) + Cardinality(missing)

(***************************************************************************)
(* C15: a serial line without ': ' gives the record the SERIAL NUMBER      *)
(* 0000000.                                                                *)
(***************************************************************************)
C15_AbsentSerialIsZeros ==
    (last.out = "record" /\ Len(last.f.header[4].rest) = 0) =>
        LastFrame.SERIAL_NUMBER = CStr(<<"0", "0", "0", "0", "0", "0", "0">>)

(***************************************************************************)
(* C18: on save the file of a year gains rows only for serial numbers of   *)
(* that year's records: every serial number of the file was in the file    *)
(* before the save or is in the year's bucket.                             *)
(***************************************************************************)
C18_YearsKeptApart ==
    Saved =>
        \A b \in 1..Len(dfs) :
            LET year == dfs[b].year IN
            SerialKeys(files[year].rows)
                \subseteq (SerialKeys(prevFiles[year].rows) \cup FrameKeys(dfs[b].frames))

(***************************************************************************)
(* C14: a process_file call that succeeds appends exactly one record, to   *)
(* the bucket of the year of the report's test date, and a call that does  *)
(* not succeed appends none; every record sits in the bucket of the year   *)
(* of its TEST DATE.  (So the records number the files that succeeded.)    *)
(***************************************************************************)
YearOfText(s) == NatVal(SubSeq(s, Len(s) - 3, Len(s)))

FramesOfYear(d, year) == IF year \in YearsOf(d) THEN Len(Bucket(d, year)) ELSE 0

C14_OneRecordPerFile ==
    [][nproc' = nproc + 1 =>
          IF last'.out = "record"
          THEN /\ last'.year = Test_Date(last'.f).year
               /\ \A y \in Years :
                     FramesOfYear(dfs', y)
                         = FramesOfYear(dfs, y) + (IF y = last'.year THEN 1 ELSE 0)
               /\ YearsOf(dfs') \subseteq Years
               /\ \A b \in 1..Len(dfs') : \A i \in 1..Len(dfs'[b].frames) :
                     YearOfText(dfs'[b].frames[i].TEST_DATE.s) = dfs'[b].year
               /\ \A b1, b2 \in 1..Len(dfs') : dfs'[b1].year = dfs'[b2].year => b1 = b2
          ELSE dfs' = dfs]_vars

\* three files, each with a body of two rows, all succeeded: three records
\* over two buckets
C14_Witness ==
    /\ nproc = 3
    /\ Len(dfs) = 2
    /\ Len(all_frames(dfs)) = 3
    /\ Len(last.f.body) = 2

(***************************************************************************)
(* C16: a header line without ': ' gives its category the value None and   *)
(* does not stop the file, whichever of the six lines it is: process_file  *)
(* completes and the walk goes on.                                         *)
(***************************************************************************)
LacksValue(f, i) == Len(f.header[i].rest) = 0

C16_MissingValueNeverStops ==
    (/\ last.f.kind = "report"
     /\ \E i \in 1..6 : LacksValue(last.f, i)
     /\ LacksValue(last.f, 2) \/ to_datetime(Some(last.f.header[2].rest[1])).ok)
        => (last.out = "record" /\ pc = "walk")

\* C16 as amended: on any of the five lines other than the test date a
\* missing value does not stop the file: the record is appended, with None
\* for a missing operator or result (COMMENTS then is FAILED), and the walk
\* goes on; a test date line without ': ' makes process_file raise before
\* any record is appended
C16_MissingValueStopsOnlyForDate ==
    [][(/\ nproc' = nproc + 1
        /\ last'.f.kind = "report"
        /\ \E i \in 1..6 : LacksValue(last'.f, i)) =>
          IF LacksValue(last'.f, 2)
          THEN last'.out = "raised" /\ dfs' = dfs
          ELSE to_datetime(Some(last'.f.header[2].rest[1])).ok =>
                  /\ last'.out = "record"
                  /\ pc' = "walk"
                  /\ Len(all_frames(dfs')) = Len(all_frames(dfs)) + 1
                  /\ LacksValue(last'.f, 5) <=> LastFrame'.TEST_OPERATOR = TNone
                  /\ LacksValue(last'.f, 6) <=> LastFrame'.TEST_RESULT = TNone
                  /\ LacksValue(last'.f, 6) => LastFrame'.COMMENTS = TStr("FAILED")]_vars

\* a record of a report whose operator line, or whose first line, has no value
C16_Witness ==
    /\ last.out = "record"
    /\ pc = "walk"
    /\ LacksValue(last.f, 5) \/ LacksValue(last.f, 1)

(***************************************************************************)
(* C17: save_to_csv and adding_serial_number leave the accumulator as it   *)
(* is (the same years, the same records in the same order with the same    *)
(* SERIAL NUMBER and Test Number), whether or not a file exists already    *)
(* and whether or not reconciliation fails.                                *)
(***************************************************************************)
SaveStep ==
    /\ pc \in {"walk", "saved"}
    /\ pc' \in {"saved", "saved again", "save raised"}

C17_SaveLeavesAccumulator == [][SaveStep => dfs' = dfs]_vars

\* a save whose reconciliation raised, over a file an earlier run had left,
\* with records in the accumulator
C17_Witness ==
    /\ pc = "save raised"
    /\ dfs # <<>>
    /\ \E b \in 1..Len(dfs) :
          /\ prevFiles[dfs[b].year].exists
          /\ files[dfs[b].year].rows # prevFiles[dfs[b].year].rows

(***************************************************************************)
(* C19: Test Number counts within one run only: merging a later run into   *)
(* an existing file never changes the Test Number of a row an earlier run  *)
(* persisted, also when the later run adds records of the same serial      *)
(* number and year.  Every record row of the file as the save found it is  *)
(* still in the file with the number it showed (rows that repeat one       *)
(* another may have been merged into one by drop_duplicates).              *)
(***************************************************************************)
SameRecord(r1, r2) ==
    /\ SerialKey(r1.SERIAL_NUMBER) = SerialKey(r2.SERIAL_NUMBER)
    /\ r1.TEST_DATE = r2.TEST_DATE
    /\ r1.TEST_OPERATOR = r2.TEST_OPERATOR
    /\ r1.TEST_RESULT = r2.TEST_RESULT
    /\ r1.COMMENTS = r2.COMMENTS
    /\ ShownNumber(r1.Test_Number) = ShownNumber(r2.Test_Number)

Occurrences(rows, r) == Cardinality({j \in 1..Len(rows) : SameRecord(rows[j], r)})

C19_PersistedTestNumberKept ==
    Saved => \A b \in 1..Len(dfs) :
        LET old == prevFiles[dfs[b].year].rows
            new == files[dfs[b].year].rows
        IN  \A i \in 1..Len(old) :
                old[i].Test_Number # <<>> /\ IsIntText(old[i].SERIAL_NUMBER)
                    => Occurrences(new, old[i]) >= 1

\* a later run saved records of a serial number that the file of that year
\* already held with a Test Number
C19_Witness ==
    /\ nrun = 2
    /\ pc = "saved"
    /\ \E b \in 1..Len(dfs) :
          LET old == prevFiles[dfs[b].year].rows IN
          /\ \E i \in 1..Len(old) :
                /\ old[i].Test_Number # <<>>
                /\ SerialKey(old[i].SERIAL_NUMBER) \in FrameKeys(dfs[b].frames)
                /\ Len(files[dfs[b].year].rows) > Len(old)

====
